---- MODULE Spec2Model ----
(***************************************************************************)
(* Model of the autoplius.lt scraper (src/web_scrapper.py) and of its      *)
(* persistence sink (src/db.py, src/sql_install.py).                       *)
(*                                                                         *)
(* Python strings are sequences of characters; a character is a one-token  *)
(* TLA+ string.  Characters outside ASCII are named by their code point.   *)
(* Python values are tagged records, so that None, an int, a float and a   *)
(* str stay distinguishable.                                               *)
(***************************************************************************)
EXTENDS Integers, Sequences, FiniteSets, TLC

VARIABLES pc, start_page, pages_per_brand, b, p, listings, li,
          fetched, store, first, last, env, models, result

vars == <<pc, start_page, pages_per_brand, b, p, listings, li,
          fetched, store, first, last, env, models, result>>

\* the state of the scraper and of the cars table
scraper == <<pc, start_page, pages_per_brand, b, p, listings, li,
             fetched, store, first, last, env>>

\* the models directory and the latest call of a prediction collaborator
ml == <<models, result>>

(***************************************************************************)
(* Bounds of the model.                                                    *)
(***************************************************************************)
MaxPages == 2
MaxListings == 2
MaxLen == 4
MaxRows == 3

(***************************************************************************)
(* Characters.                                                             *)
(***************************************************************************)
Euro == "U+20AC"
ACirc == "U+00E2"
Low9 == "U+201A"
NotSign == "U+00AC"
Nbsp == "U+00A0"

Digits == {"0", "1", "2", "3", "4", "5", "6", "7", "8", "9"}

\* str.isspace(): the characters str.strip() and int() treat as whitespace.
Whitespace == {" ", "\n", "\t", Nbsp}

DigitVal(c) ==
    CASE c = "0" -> 0 [] c = "1" -> 1 [] c = "2" -> 2 [] c = "3" -> 3
      [] c = "4" -> 4 [] c = "5" -> 5 [] c = "6" -> 6 [] c = "7" -> 7
      [] c = "8" -> 8 [] c = "9" -> 9

\* str.lower() on the letters of the model's alphabet.
LowerChar(c) ==
    CASE c = "K" -> "k" [] c = "M" -> "m" [] c = "W" -> "w"
      [] c = "L" -> "l" [] c = "X" -> "x" [] OTHER -> c

(***************************************************************************)
(* Python values.                                                          *)
(***************************************************************************)
PyNone == [tag |-> "None", n |-> 0, k |-> 0, s |-> <<>>]
PyInt(i) == [tag |-> "int", n |-> i, k |-> 0, s |-> <<>>]
\* a float with a finite decimal expansion: n * 10^(-k), k minimal
PyFloat(m, e) == [tag |-> "float", n |-> m, k |-> e, s |-> <<>>]
PyStr(t) == [tag |-> "str", n |-> 0, k |-> 0, s |-> t]

(***************************************************************************)
(* str methods.                                                            *)
(***************************************************************************)
Lower(s) == [i \in 1..Len(s) |-> LowerChar(s[i])]

RECURSIVE LStrip(_)
LStrip(s) ==
    IF s # <<>> /\ Head(s) \in Whitespace THEN LStrip(Tail(s)) ELSE s

RECURSIVE RStrip(_)
RStrip(s) ==
    IF s # <<>> /\ s[Len(s)] \in Whitespace
    THEN RStrip(SubSeq(s, 1, Len(s) - 1)) ELSE s

\* str.strip()
Strip(s) == RStrip(LStrip(s))

\* the least index at which sub occurs in s, 0 when it does not: s.find(sub) + 1
Find(s, sub) ==
    LET hits == {i \in 1..(Len(s) - Len(sub) + 1) :
                    SubSeq(s, i, i + Len(sub) - 1) = sub}
    IN  IF hits = {} THEN 0 ELSE CHOOSE i \in hits : \A j \in hits : i <= j

\* sub in s
Contains(s, sub) == Find(s, sub) # 0

\* s.replace(sub, ''), sub non-empty: occurrences are removed left to right
RECURSIVE Remove(_, _)
Remove(s, sub) ==
    LET i == Find(s, sub)
    IN  IF i = 0 THEN s
        ELSE SubSeq(s, 1, i - 1) \o Remove(SubSeq(s, i + Len(sub), Len(s)), sub)

\* s.split(c)[0]
BeforeFirst(s, c) ==
    LET i == Find(s, <<c>>)
    IN  IF i = 0 THEN s ELSE SubSeq(s, 1, i - 1)

\* s.split(c): every part, for a one-character separator
RECURSIVE Split(_, _)
Split(s, c) ==
    LET i == Find(s, <<c>>)
    IN  IF i = 0 THEN <<s>>
        ELSE <<SubSeq(s, 1, i - 1)>> \o Split(SubSeq(s, i + 1, Len(s)), c)

\* s.split(c, 1): at most one split
Split1(s, c) ==
    LET i == Find(s, <<c>>)
    IN  IF i = 0 THEN <<s>>
        ELSE <<SubSeq(s, 1, i - 1), SubSeq(s, i + 1, Len(s))>>

\* s[:n]
Prefix(s, n) == SubSeq(s, 1, IF Len(s) < n THEN Len(s) ELSE n)

(***************************************************************************)
(* int(str) and float(str).                                                *)
(***************************************************************************)
\* digits, with single underscores allowed between two digits (PEP 515)
DigitString(s) ==
    /\ s # <<>>
    /\ \A i \in 1..Len(s) : s[i] \in Digits \cup {"_"}
    /\ s[1] \in Digits
    /\ s[Len(s)] \in Digits
    /\ \A i \in 1..(Len(s) - 1) : s[i] = "_" => s[i + 1] # "_"

RECURSIVE DigitsValue(_)
DigitsValue(s) ==
    IF s = <<>> THEN 0
    ELSE LET c == s[Len(s)]
             r == DigitsValue(SubSeq(s, 1, Len(s) - 1))
         IN  IF c = "_" THEN r ELSE 10 * r + DigitVal(c)

Unsigned(s) == IF s # <<>> /\ Head(s) \in {"+", "-"} THEN Tail(s) ELSE s

Sign(s) == IF s # <<>> /\ Head(s) = "-" THEN -1 ELSE 1

\* int(s) does not raise ValueError
IntOk(s) == DigitString(Unsigned(Strip(s)))

\* int(s), when IntOk(s)
IntOf(s) == Sign(Strip(s)) * DigitsValue(Unsigned(Strip(s)))

\* float(s) does not raise ValueError: digits, a point, digits (either digit
\* part may be missing, not both).  The model's alphabet has no exponent
\* letter and none of the letters of "inf" and "nan".
FloatOk(s) ==
    LET u == Unsigned(Strip(s))
        i == Find(u, <<".">>)
        ip == IF i = 0 THEN u ELSE SubSeq(u, 1, i - 1)
        fp == IF i = 0 THEN <<>> ELSE SubSeq(u, i + 1, Len(u))
    IN  /\ ip # <<>> \/ fp # <<>>
        /\ ip = <<>> \/ DigitString(ip)
        /\ fp = <<>> \/ DigitString(fp)

RECURSIVE Pow10(_)
Pow10(e) == IF e = 0 THEN 1 ELSE 10 * Pow10(e - 1)

\* the number of digits of a digit string
NumDigits(s) == Cardinality({i \in 1..Len(s) : s[i] \in Digits})

RECURSIVE Normal(_, _)
Normal(m, e) ==
    IF e > 0 /\ m % 10 = 0 THEN Normal(m \div 10, e - 1) ELSE PyFloat(m, e)

\* float(s), when FloatOk(s)
FloatOf(s) ==
    LET u == Unsigned(Strip(s))
        i == Find(u, <<".">>)
        ip == IF i = 0 THEN u ELSE SubSeq(u, 1, i - 1)
        fp == IF i = 0 THEN <<>> ELSE SubSeq(u, i + 1, Len(u))
        e == NumDigits(fp)
    IN  Normal(Sign(Strip(s)) * (DigitsValue(ip) * Pow10(e) + DigitsValue(fp)), e)

(***************************************************************************)
(* A listing fragment: the <a class="announcement-item"> sub-tree of one   *)
(* advertisement.  Each sub-element may be absent; a present one carries   *)
(* its raw text (spans: the raw text of each <span>, in document order).   *)
(***************************************************************************)
Fragment(idDiv, hasId, id, tEl, tTx, pEl, pTx, tpEl, tpSp, pbEl, pbSp) ==
    [id_div |-> idDiv, has_data_id |-> hasId, data_id |-> id,
     title_elem |-> tEl, title_text |-> tTx,
     price_elem |-> pEl, price_text |-> pTx,
     title_params |-> tpEl, title_spans |-> tpSp,
     params_block |-> pbEl, block_spans |-> pbSp]

\* Tag.get_text(strip=True) of an element holding one text node
GetTextStrip(t) == Strip(t)

\* lines 54-57: ad_id
AdId(f) ==
    IF f.id_div /\ f.has_data_id THEN PyStr(f.data_id) ELSE PyNone

\* `not ad_id`
NotAdId(v) == v.tag = "None" \/ (v.tag = "str" /\ v.s = <<>>)

\* lines 69-72: make and model
Title(f) == Strip(f.title_text)

Make(f) == PyStr(Split1(Title(f), " ")[1])

Model(f) ==
    LET make_and_model == Split1(Title(f), " ")
    IN  IF Len(make_and_model) > 1 THEN PyStr(make_and_model[2]) ELSE PyNone

\* line 79: price_cleaned
PriceCleaned(price_text) ==
    Remove(Remove(Strip(BeforeFirst(price_text, "\n")), <<ACirc, Low9, NotSign>>),
           <<" ">>)

\* lines 80-84 with the cleaned text kept when int() fails
ParsePriceKeepRaw(text) ==
    LET price_cleaned == PriceCleaned(Strip(text))
    IN  IF IntOk(price_cleaned) THEN PyInt(IntOf(price_cleaned))
        ELSE PyStr(price_cleaned)

\* lines 76-84: price_value from the pricing element's text
ParsePrice(text) ==
    LET price_cleaned == PriceCleaned(Strip(text))
    IN  IF IntOk(price_cleaned) THEN PyInt(IntOf(price_cleaned)) ELSE PyNone

PriceValue(f) == IF f.price_elem THEN ParsePrice(f.price_text) ELSE PyNone

\* lines 93-98: year from the first title-parameter span
ParseYear(text) ==
    LET year_text == Prefix(GetTextStrip(text), 4)
    IN  IF IntOk(year_text) THEN PyInt(IntOf(year_text)) ELSE PyNone

Year(f) ==
    IF f.title_params /\ Len(f.title_spans) > 0
    THEN ParseYear(f.title_spans[1]) ELSE PyNone

\* lines 99-100
BodyType(f) ==
    IF f.title_params /\ Len(f.title_spans) > 1
    THEN PyStr(GetTextStrip(f.title_spans[2])) ELSE PyNone

\* line 111: block_spans_values
BlockSpansValues(f) ==
    [i \in 1..Len(f.block_spans) |-> GetTextStrip(f.block_spans[i])]

\* lines 113-114
Fuel(f) ==
    IF f.params_block /\ Len(f.block_spans) > 0
    THEN PyStr(BlockSpansValues(f)[1]) ELSE PyNone

\* lines 115-116
Gearbox(f) ==
    IF f.params_block /\ Len(f.block_spans) > 1
    THEN PyStr(BlockSpansValues(f)[2]) ELSE PyNone

\* line 120: parts
EngineParts(engine_info) ==
    LET raw == Split(engine_info, ",")
    IN  [i \in 1..Len(raw) |-> Strip(raw[i])]

\* lines 119-127: engine_volume from the engine-info value
ParseEngineVolume(engine_info) ==
    IF Contains(engine_info, <<",">>) /\ Len(EngineParts(engine_info)) >= 2
    THEN LET volume_cleaned == Strip(Remove(EngineParts(engine_info)[1], <<"l", ".">>))
         IN  IF FloatOk(volume_cleaned) THEN FloatOf(volume_cleaned) ELSE PyNone
    ELSE PyNone

\* lines 129-134 nested in the try of lines 123-127: a volume that does not
\* parse leaves engine_power unassigned
ParseEnginePowerCoupled(engine_info) ==
    IF Contains(engine_info, <<",">>) /\ Len(EngineParts(engine_info)) >= 2
    THEN LET volume_cleaned == Strip(Remove(EngineParts(engine_info)[1], <<"l", ".">>))
             power_cleaned == Strip(Remove(EngineParts(engine_info)[2], <<"k", "W">>))
         IN  IF FloatOk(volume_cleaned) /\ IntOk(power_cleaned)
             THEN PyInt(IntOf(power_cleaned)) ELSE PyNone
    ELSE PyNone

\* lines 119-121, 129-134: engine_power from the engine-info value
ParseEnginePower(engine_info) ==
    IF Contains(engine_info, <<",">>) /\ Len(EngineParts(engine_info)) >= 2
    THEN LET power_cleaned == Strip(Remove(EngineParts(engine_info)[2], <<"k", "W">>))
         IN  IF IntOk(power_cleaned) THEN PyInt(IntOf(power_cleaned)) ELSE PyNone
    ELSE PyNone

EngineVolume(f) ==
    IF f.params_block /\ Len(f.block_spans) > 2
    THEN ParseEngineVolume(BlockSpansValues(f)[3]) ELSE PyNone

EnginePower(f) ==
    IF f.params_block /\ Len(f.block_spans) > 2
    THEN ParseEnginePower(BlockSpansValues(f)[3]) ELSE PyNone

\* lines 139-147: mileage from the mileage value
ParseMileage(mileage_text) ==
    IF Contains(Lower(mileage_text), <<" ", "k", "m">>)
    THEN LET mileage_cleaned ==
                 Strip(Remove(Remove(Lower(mileage_text), <<"k", "m">>), <<" ">>))
         IN  IF IntOk(mileage_cleaned) THEN PyInt(IntOf(mileage_cleaned)) ELSE PyNone
    ELSE PyNone

Mileage(f) ==
    IF f.params_block /\ Len(f.block_spans) > 3
    THEN ParseMileage(BlockSpansValues(f)[4]) ELSE PyNone

\* line 149: car_data
CarData(f) ==
    [ad_id |-> AdId(f), make |-> Make(f), model |-> Model(f),
     price |-> PriceValue(f), year |-> Year(f), body_type |-> BodyType(f),
     fuel |-> Fuel(f), gearbox |-> Gearbox(f),
     engine_volume |-> EngineVolume(f), engine_power |-> EnginePower(f),
     mileage |-> Mileage(f)]

NoCar ==
    [ad_id |-> PyNone, make |-> PyNone, model |-> PyNone, price |-> PyNone,
     year |-> PyNone, body_type |-> PyNone, fuel |-> PyNone, gearbox |-> PyNone,
     engine_volume |-> PyNone, engine_power |-> PyNone, mileage |-> PyNone]

(***************************************************************************)
(* The local variables of scrape_autoplius that make up car_data.  They    *)
(* live across the iterations of the listing loop; an iteration assigns    *)
(* them in the order of lines 54-147, as far as it gets.                   *)
(***************************************************************************)
\* a local variable that has not been assigned yet
Unbound == [tag |-> "unbound", n |-> 0, k |-> 0, s |-> <<>>]

FreshLocals ==
    [ad_id |-> Unbound, make |-> Unbound, model |-> Unbound, price |-> Unbound,
     year |-> Unbound, body_type |-> Unbound, fuel |-> Unbound, gearbox |-> Unbound,
     engine_volume |-> Unbound, engine_power |-> Unbound, mileage |-> Unbound]

\* line 54
ResetAdId(e) == [e EXCEPT !.ad_id = PyNone]

\* lines 54-57
AssignAdId(e, f) ==
    IF f.id_div /\ f.has_data_id
    THEN [ResetAdId(e) EXCEPT !.ad_id = PyStr(f.data_id)] ELSE ResetAdId(e)

\* lines 69-72
AssignTitle(e, f) ==
    LET make_and_model == Split1(Strip(f.title_text), " ")
    IN  [e EXCEPT !.make = PyStr(make_and_model[1]),
                  !.model = IF Len(make_and_model) > 1
                            THEN PyStr(make_and_model[2]) ELSE PyNone]

\* lines 77-84 without line 76: price_value keeps its value when the listing
\* has no pricing element
AssignPriceNoReset(e, f) ==
    IF f.price_elem THEN [e EXCEPT !.price = ParsePrice(f.price_text)] ELSE e

\* lines 76-84
AssignPrice(e, f) ==
    LET r == [e EXCEPT !.price = PyNone]
    IN  IF f.price_elem THEN [r EXCEPT !.price = ParsePrice(f.price_text)] ELSE r

\* lines 87-88
ResetTitleParams(e) == [e EXCEPT !.year = PyNone, !.body_type = PyNone]

\* lines 87-100
AssignTitleParams(e, f) ==
    LET r == ResetTitleParams(e)
        y == IF Len(f.title_spans) > 0
             THEN [r EXCEPT !.year = ParseYear(f.title_spans[1])] ELSE r
    IN  IF ~f.title_params THEN r
        ELSE IF Len(f.title_spans) > 1
        THEN [y EXCEPT !.body_type = PyStr(GetTextStrip(f.title_spans[2]))] ELSE y

\* lines 103-107
ResetParams(e) ==
    [e EXCEPT !.fuel = PyNone, !.gearbox = PyNone, !.engine_volume = PyNone,
              !.engine_power = PyNone, !.mileage = PyNone]

\* lines 103-147
AssignParams(e, f) ==
    LET r == ResetParams(e)
        v == BlockSpansValues(f)
        n == Len(v)
        s1 == IF n > 0 THEN [r EXCEPT !.fuel = PyStr(v[1])] ELSE r
        s2 == IF n > 1 THEN [s1 EXCEPT !.gearbox = PyStr(v[2])] ELSE s1
        s3 == IF n > 2
              THEN [s2 EXCEPT !.engine_volume = ParseEngineVolume(v[3]),
                              !.engine_power = ParseEnginePower(v[3])]
              ELSE s2
    IN  IF ~f.params_block THEN r
        ELSE IF n > 3 THEN [s3 EXCEPT !.mileage = ParseMileage(v[4])] ELSE s3

\* line 149: car_data, the locals once lines 54-147 have run on fragment f
CarTuple(e, f) ==
    AssignParams(AssignTitleParams(AssignPrice(AssignTitle(AssignAdId(e, f), f), f), f), f)

(***************************************************************************)
(* The cars table (src/sql_install.py) and insert_car (src/db.py).  The    *)
(* table is the sequence of its rows in insertion order.                   *)
(***************************************************************************)
\* a row: the AUTOINCREMENT id and the inserted columns
Row(id, car) == [id |-> id, car |-> car]

\* ad_id TEXT UNIQUE: the row that conflicts with car, if any; NULLs never conflict
Conflicts(st, car) ==
    /\ car.ad_id.tag # "None"
    /\ \E i \in 1..Len(st) : st[i].car.ad_id = car.ad_id

\* INSERT OR REPLACE: the conflicting row is deleted and the new one appended
InsertOrReplace(st, car) ==
    LET keep == SelectSeq(st, LAMBDA r : r.car.ad_id # car.ad_id \/ car.ad_id.tag = "None")
    IN  Append(keep, Row(Len(st) + 1, car))

\* INSERT OR IGNORE INTO cars ... ; commit
InsertOrIgnore(st, car) ==
    IF Conflicts(st, car) THEN st ELSE Append(st, Row(Len(st) + 1, car))

\* whether insert_car(car) raises on a table that exists and can be written
InsertRaises(st, car) == FALSE

\* the first car submitted under each identity (a history of the calls)
Submit(fst, car) ==
    IF \E c \in fst : c.ad_id = car.ad_id THEN fst ELSE fst \cup {car}

(***************************************************************************)
(* One iteration of `for listing in listings` (lines 51-154).              *)
(* fault names where an unexpected exception is raised, if anywhere: at    *)
(* the lookup of a sub-element, or inside insert_car (the transaction is   *)
(* rolled back).  A fault placed after the point where the iteration ends  *)
(* does not happen.                                                        *)
(***************************************************************************)
Faults == {"none", "id", "title", "price", "title_params", "params_block", "insert"}

\* the faults of a whole run: in the extraction, or inside insert_car
RunFaults == {"none", "id", "insert"}

Lookups == <<"id", "title", "price", "title_params", "params_block">>

\* the sub-elements looked up before (and including) the k-th lookup
Probed(k) == {Lookups[i] : i \in 1..k}

Outcome(f, o, k, called, raised, car) ==
    [frag |-> f, outcome |-> o, probed |-> Probed(k), called |-> called,
     raised |-> raised, car |-> car]

NoFragment ==
    Fragment(FALSE, FALSE, <<>>, FALSE, <<>>, FALSE, <<>>, FALSE, <<>>, FALSE, <<>>)

NoOutcome == Outcome(NoFragment, "none", 0, FALSE, FALSE, NoCar)

\* lines 75-77 with the pricing element required like the title element
ListingPriceRequired(f, fault, st, e) ==
    IF fault = "id" THEN Outcome(f, "error", 1, FALSE, FALSE, NoCar)
    ELSE IF NotAdId(AdId(f)) THEN Outcome(f, "skip_no_id", 1, FALSE, FALSE, NoCar)
    ELSE IF fault = "title" THEN Outcome(f, "error", 2, FALSE, FALSE, NoCar)
    ELSE IF ~f.title_elem THEN Outcome(f, "skip_no_title", 2, FALSE, FALSE, NoCar)
    ELSE IF fault = "price" THEN Outcome(f, "error", 3, FALSE, FALSE, NoCar)
    ELSE IF ~f.price_elem THEN Outcome(f, "skip_no_price", 3, FALSE, FALSE, NoCar)
    ELSE IF fault = "title_params" THEN Outcome(f, "error", 4, FALSE, FALSE, NoCar)
    ELSE IF fault = "params_block" THEN Outcome(f, "error", 5, FALSE, FALSE, NoCar)
    ELSE IF fault = "insert" \/ InsertRaises(st, CarTuple(e, f))
         THEN Outcome(f, "error", 5, TRUE, TRUE, CarTuple(e, f))
    ELSE Outcome(f, "inserted", 5, TRUE, FALSE, CarTuple(e, f))

\* lines 59-61 left out: a fragment without identity is processed like any other
ListingNoIdCheck(f, fault, st, e) ==
    IF fault = "id" THEN Outcome(f, "error", 1, FALSE, FALSE, NoCar)
    ELSE IF fault = "title" THEN Outcome(f, "error", 2, FALSE, FALSE, NoCar)
    ELSE IF ~f.title_elem THEN Outcome(f, "skip_no_title", 2, FALSE, FALSE, NoCar)
    ELSE IF fault = "price" THEN Outcome(f, "error", 3, FALSE, FALSE, NoCar)
    ELSE IF fault = "title_params" THEN Outcome(f, "error", 4, FALSE, FALSE, NoCar)
    ELSE IF fault = "params_block" THEN Outcome(f, "error", 5, FALSE, FALSE, NoCar)
    ELSE IF fault = "insert" \/ InsertRaises(st, CarTuple(e, f))
         THEN Outcome(f, "error", 5, TRUE, TRUE, CarTuple(e, f))
    ELSE Outcome(f, "inserted", 5, TRUE, FALSE, CarTuple(e, f))

\* the locals after the iteration on fragment f, entered with locals e
LocalsAfter(e, f, fault) ==
    LET s1 == AssignAdId(e, f)
        s2 == AssignTitle(s1, f)
        s3 == AssignPrice(s2, f)
        s4 == AssignTitleParams(s3, f)
    IN  IF fault = "id" THEN ResetAdId(e)
        ELSE IF NotAdId(s1.ad_id) \/ fault = "title" \/ ~f.title_elem THEN s1
        ELSE IF fault = "price" THEN s2
        ELSE IF fault = "title_params" THEN ResetTitleParams(s3)
        ELSE IF fault = "params_block" THEN ResetParams(s4)
        ELSE AssignParams(s4, f)

\* what the iteration does with fragment f on table st, entered with locals e
Listing(f, fault, st, e) ==
    IF fault = "id" THEN Outcome(f, "error", 1, FALSE, FALSE, NoCar)
    ELSE IF NotAdId(AdId(f)) THEN Outcome(f, "skip_no_id", 1, FALSE, FALSE, NoCar)
    ELSE IF fault = "title" THEN Outcome(f, "error", 2, FALSE, FALSE, NoCar)
    ELSE IF ~f.title_elem THEN Outcome(f, "skip_no_title", 2, FALSE, FALSE, NoCar)
    ELSE IF fault = "price" THEN Outcome(f, "error", 3, FALSE, FALSE, NoCar)
    ELSE IF fault = "title_params" THEN Outcome(f, "error", 4, FALSE, FALSE, NoCar)
    ELSE IF fault = "params_block" THEN Outcome(f, "error", 5, FALSE, FALSE, NoCar)
    ELSE IF fault = "insert" \/ InsertRaises(st, CarTuple(e, f))
         THEN Outcome(f, "error", 5, TRUE, TRUE, CarTuple(e, f))
    ELSE Outcome(f, "inserted", 5, TRUE, FALSE, CarTuple(e, f))

(***************************************************************************)
(* The prediction collaborators (src/predict_price.py,                     *)
(* src/evaluate_model.py).  models[make] is the state of the file          *)
(* models/<make>_model.pkl: "absent"; "corrupt" (joblib.load raises);      *)
(* "no_columns" (it loads, model_columns is empty); "empty_test" (it       *)
(* loads, X_test or y_test has no rows); "ok".  A call ends by raising or  *)
(* by returning, after logging at some level.                              *)
(***************************************************************************)
Makes == {"Audi", "BMW", "Volkswagen"}

FileStates == {"absent", "corrupt", "no_columns", "empty_test", "ok"}

Raised(fn, make, exc) ==
    [fn |-> fn, make |-> make, outcome |-> "raise", exc |-> exc,
     value |-> "none", logged |-> "error"]

Returned(fn, make, value, level) ==
    [fn |-> fn, make |-> make, outcome |-> "return", exc |-> "none",
     value |-> value, logged |-> level]

NoResult ==
    [fn |-> "none", make |-> "none", outcome |-> "none", exc |-> "none",
     value |-> "none", logged |-> "none"]

\* src/predict_price.py lines 30-41
load_model(files, make) ==
    IF files[make] = "absent" THEN Raised("load_model", make, "FileNotFoundError")
    ELSE IF files[make] = "corrupt" THEN Raised("load_model", make, "Exception")
    ELSE Returned("load_model", make, "model_data", "info")

\* src/predict_price.py lines 93-114
predict_price(files, make) ==
    LET model_data == load_model(files, make)
    IN  IF model_data.outcome = "raise"
        THEN Raised("predict_price", make, model_data.exc)
        ELSE IF files[make] = "no_columns"
        THEN Raised("predict_price", make, "ValueError")
        ELSE Returned("predict_price", make, "price", "info")

\* src/evaluate_model.py lines 25-75
evaluate_model(files, make) ==
    IF files[make] = "absent" THEN Returned("evaluate_model", make, "None", "error")
    ELSE IF files[make] = "corrupt"
    THEN Returned("evaluate_model", make, "None", "error")
    ELSE IF files[make] \in {"no_columns", "empty_test"}
    THEN Returned("evaluate_model", make, "None", "warning")
    ELSE Returned("evaluate_model", make, "None", "info")

(***************************************************************************)
(* Texts and fragments the site serves in the model.                       *)
(***************************************************************************)
Id1 == <<"a", "1">>
Id2 == <<"a", "2">>

TitleText == <<"B", " ", "5">>
PriceText1 == <<"1", "5">>
PriceText2 == <<"9">>
TitleSpans == << <<"2", "0", "1", "5", "-">>, <<"S">> >>
BlockSpans == << <<"D">>, <<"A">>, <<"2", ",", "1">>, <<"8", " ", "k", "m">> >>

\* a complete advertisement
FullFragment(id, priceText) ==
    Fragment(TRUE, TRUE, id, TRUE, TitleText, TRUE, priceText,
             TRUE, TitleSpans, TRUE, BlockSpans)

\* an advertisement with nothing but its identity and its title
BareFragment(id) ==
    Fragment(TRUE, TRUE, id, TRUE, TitleText, FALSE, <<>>, FALSE, <<>>, FALSE, <<>>)

NoBookmarkFragment ==
    Fragment(FALSE, FALSE, <<>>, TRUE, TitleText, TRUE, PriceText1,
             TRUE, TitleSpans, TRUE, BlockSpans)

NoDataIdFragment ==
    Fragment(TRUE, FALSE, <<>>, TRUE, TitleText, TRUE, PriceText1,
             TRUE, TitleSpans, TRUE, BlockSpans)

EmptyIdFragment == FullFragment(<<>>, PriceText1)

NoTitleFragment ==
    Fragment(TRUE, TRUE, Id2, FALSE, <<>>, TRUE, PriceText2,
             TRUE, TitleSpans, TRUE, BlockSpans)

\* the fragments a results page of the model is made of
SiteFragments ==
    {FullFragment(Id1, PriceText1), BareFragment(Id1),
     NoBookmarkFragment, NoDataIdFragment, EmptyIdFragment, NoTitleFragment}

\* the fragments the pages of a whole run are made of
RunFragments == SiteFragments \ {BareFragment(Id1)}

\* the car_brands argument (lines 160-171, cut to its first two slugs)
car_brands == <<"bmw", "volkswagen">>

Brands == 1..Len(car_brands)

\* the values of the start_page argument
StartPages == {1, 2}

PageNumbers == 1..(MaxPages + 2)

(***************************************************************************)
(* scrape_autoplius (src/web_scrapper.py, lines 17-157).                   *)
(* pc is the position in the function: "brand" at the head of the brand    *)
(* loop, "page" at the head of the page loop, "listing" at the head of the *)
(* listing loop, "done" after the final log line.                          *)
(* listings is the number of fragments find_all returned for the page; the *)
(* content of a fragment is drawn when the listing loop reaches it.        *)
(* fetched[b][p] is the history of the outcomes of driver.get for page p   *)
(* of brand b; last is what the latest iteration of the running listing    *)
(* loop did, first the history of the cars handed to insert_car, env the   *)
(* local variables that car_data is built from.                            *)
(***************************************************************************)
Init ==
    /\ pc = "brand"
    /\ start_page \in StartPages
    /\ pages_per_brand \in 0..MaxPages
    /\ b = 1
    /\ p = start_page
    /\ listings = 0
    /\ li = 1
    /\ fetched = [x \in Brands |-> [y \in PageNumbers |-> <<>>]]
    /\ store = <<>>
    /\ first = {}
    /\ last = NoOutcome
    /\ env = FreshLocals
    /\ models = [m \in Makes |-> "absent"]
    /\ result = NoResult

\* line 31: the brand loop takes its next brand; line 33 starts its page range
StartBrand ==
    /\ pc = "brand"
    /\ b <= Len(car_brands)
    /\ pc' = "page"
    /\ p' = start_page
    /\ UNCHANGED <<start_page, pages_per_brand, b, listings, li, fetched, store,
                   first, last>>
    /\ UNCHANGED <<env, ml>>

\* lines 37-42, with break in place of continue
FetchFailBreak ==
    /\ pc = "page"
    /\ p < start_page + pages_per_brand
    /\ fetched' = [fetched EXCEPT ![b][p] = Append(@, "fail")]
    /\ b' = b + 1
    /\ pc' = "brand"
    /\ UNCHANGED <<start_page, pages_per_brand, p, listings, li, store, first, last>>
    /\ UNCHANGED <<env, ml>>

\* lines 37-42: driver.get raises; the page is skipped
FetchFail ==
    /\ pc = "page"
    /\ p < start_page + pages_per_brand
    /\ fetched' = [fetched EXCEPT ![b][p] = Append(@, "fail")]
    /\ p' = p + 1
    /\ UNCHANGED <<pc, start_page, pages_per_brand, b, listings, li, store, first, last>>
    /\ UNCHANGED <<env, ml>>

\* lines 44-49, with continue in place of break on an empty page
FetchPageNoBreak ==
    /\ pc = "page"
    /\ p < start_page + pages_per_brand
    /\ \E n \in 0..MaxListings :
          /\ listings' = n
          /\ fetched' = [fetched EXCEPT
                            ![b][p] = Append(@, IF n = 0 THEN "empty" ELSE "ok")]
    /\ pc' = "listing"
    /\ li' = 1
    /\ UNCHANGED <<start_page, pages_per_brand, b, p, store, first, last>>
    /\ UNCHANGED <<env, ml>>

\* lines 44-49, with return in place of break on an empty page
FetchPageReturnsOnEmpty ==
    /\ pc = "page"
    /\ p < start_page + pages_per_brand
    /\ \E n \in 0..MaxListings :
          /\ listings' = n
          /\ fetched' = [fetched EXCEPT
                            ![b][p] = Append(@, IF n = 0 THEN "empty" ELSE "ok")]
          /\ IF n = 0
             THEN /\ b' = Len(car_brands) + 1
                  /\ pc' = "done"
                  /\ UNCHANGED <<p, li>>
             ELSE /\ pc' = "listing"
                  /\ li' = 1
                  /\ UNCHANGED <<b, p>>
    /\ UNCHANGED <<start_page, pages_per_brand, store, first, last>>
    /\ UNCHANGED <<env, ml>>

\* lines 37-49: the page loads; its fragments are found; an empty page ends the brand
FetchPage ==
    /\ pc = "page"
    /\ p < start_page + pages_per_brand
    /\ \E n \in 0..MaxListings :
          /\ listings' = n
          /\ fetched' = [fetched EXCEPT
                            ![b][p] = Append(@, IF n = 0 THEN "empty" ELSE "ok")]
          /\ IF n = 0
             THEN /\ b' = b + 1
                  /\ pc' = "brand"
                  /\ UNCHANGED <<p, li>>
             ELSE /\ pc' = "listing"
                  /\ li' = 1
                  /\ UNCHANGED <<b, p>>
    /\ UNCHANGED <<start_page, pages_per_brand, store, first, last>>
    /\ UNCHANGED <<env, ml>>

\* line 33: the page range is exhausted; on to the next brand
PagesDone ==
    /\ pc = "page"
    /\ p >= start_page + pages_per_brand
    /\ b' = b + 1
    /\ pc' = "brand"
    /\ UNCHANGED <<start_page, pages_per_brand, p, listings, li, fetched, store,
                   first, last>>
    /\ UNCHANGED <<env, ml>>

\* the effect of one iteration on fragment f: the table, the history
Iterate(f, fault) ==
    LET out == Listing(f, fault, store, env)
    IN  /\ last' = out
        /\ env' = LocalsAfter(env, f, fault)
        /\ store' = IF out.outcome = "inserted"
                    THEN InsertOrIgnore(store, out.car) ELSE store
        /\ first' = IF out.called /\ ~out.raised
                    THEN Submit(first, out.car) ELSE first

\* lines 51-154 without the try/except: an exception ends the run
ProcessListingNoCatch ==
    /\ pc = "listing"
    /\ li <= listings
    /\ \E f \in RunFragments, fault \in RunFaults :
          /\ Iterate(f, fault)
          /\ IF last'.outcome = "error"
             THEN pc' = "aborted" /\ li' = li
             ELSE pc' = pc /\ li' = li + 1
    /\ UNCHANGED <<start_page, pages_per_brand, b, p, listings, fetched>>
    /\ UNCHANGED ml

\* lines 51-154: one iteration of the listing loop
ProcessListing ==
    /\ pc = "listing"
    /\ li <= listings
    /\ \E f \in RunFragments, fault \in RunFaults : Iterate(f, fault)
    /\ li' = li + 1
    /\ UNCHANGED <<pc, start_page, pages_per_brand, b, p, listings, fetched>>
    /\ UNCHANGED ml

\* line 51 with a break at the end of the loop body: the listing loop may be
\* left before its last fragment
ListingsDoneEarly ==
    /\ pc = "listing"
    /\ li > 1 \/ li > listings
    /\ p' = p + 1
    /\ pc' = "page"
    /\ last' = NoOutcome
    /\ UNCHANGED <<start_page, pages_per_brand, b, listings, li, fetched, store, first>>
    /\ UNCHANGED <<env, ml>>

\* line 51: the listings of the page are exhausted; on to the next page
ListingsDone ==
    /\ pc = "listing"
    /\ li > listings
    /\ p' = p + 1
    /\ pc' = "page"
    /\ last' = NoOutcome
    /\ UNCHANGED <<start_page, pages_per_brand, b, listings, li, fetched, store, first>>
    /\ UNCHANGED <<env, ml>>

\* lines 156-157: the brand loop is exhausted; driver.quit()
Quit ==
    /\ pc = "brand"
    /\ b > Len(car_brands)
    /\ pc' = "done"
    /\ UNCHANGED <<start_page, pages_per_brand, b, p, listings, li, fetched, store,
                   first, last>>
    /\ UNCHANGED <<env, ml>>

Next ==
    \/ StartBrand
    \/ FetchFail
    \/ FetchPage
    \/ PagesDone
    \/ ProcessListing
    \/ ListingsDone
    \/ Quit

Spec == Init /\ [][Next]_vars

\* the program is sequential: whenever it has a step to take, it takes one
LiveSpec == Spec /\ WF_vars(Next)

(***************************************************************************)
(* One listing iteration on a wide range of fragments: the first page of   *)
(* the first brand has been fetched and holds one fragment; the table      *)
(* exists and no unexpected exception is raised.                           *)
(***************************************************************************)
\* the strings over alphabet A of length at most n
Strings(A, n) == UNION {[1..k -> A] : k \in 0..n}

\* the first k elements of a sequence
Take(sq, k) == SubSeq(sq, 1, k)

\* every way the sub-elements and spans of a fragment can be present or absent
PresenceFragments ==
    {Fragment(idk # "nodiv", idk \in {"empty", "id"},
              IF idk = "id" THEN Id1 ELSE <<>>,
              t, TitleText, pr, PriceText1,
              tp, Take(TitleSpans, ntp), pb, Take(BlockSpans, npb)) :
        idk \in {"nodiv", "noattr", "empty", "id"}, t \in BOOLEAN, pr \in BOOLEAN,
        tp \in BOOLEAN, pb \in BOOLEAN,
        ntp \in 0..Len(TitleSpans), npb \in 0..Len(BlockSpans)}

PriceAlphabet == {"1", "0", " ", "\n", Euro, "x"}

\* the pricing texts of the end-to-end example and of its variants
PriceExamples ==
    {<<"1", "5", " ", "0", "0", "0", " ", Euro, "\n", "x", "x">>,
     <<"1", "5", " ", "0", "0", "0", " ", ACirc, Low9, NotSign, "\n", "x">>,
     <<"1", "5", " ", "0", "0", "0">>,
     <<"\n", " ", "1", "5", "0", "0", "0", " ", "\n">>,
     <<"1", "5", Nbsp, "0", "0", "0", " ", Euro>>,
     <<"-", "1", "_", "0">>}

PriceTexts(n) == Strings(PriceAlphabet, n) \cup PriceExamples

YearAlphabet == {"1", "9", "-", " ", "x", "_"}

YearExamples ==
    {<<"2", "0", "1", "5", "-", "0", "3">>, <<"2", "0", "1", "5">>,
     <<"1", "9", "9", " ", "m", ".">>}

YearTexts(n) == Strings(YearAlphabet, n) \cup YearExamples

EngineAlphabet == {"2", ".", ",", "l", "k", "W"}

EngineExamples ==
    {<<"2", ".", "0", " ", "l", ".", ",", " ", "1", "4", "0", " ", "k", "W">>,
     <<"2", ".", "0", " ", "l", ".">>,
     <<"x", ",", " ", "1", "4", "0", " ", "k", "W">>,
     <<"2", ".", "0", " ", "l", ".", ",", " ", "x">>,
     <<"1", "4", "0", " ", "k", "W">>}

EngineTexts(n) == Strings(EngineAlphabet, n) \cup EngineExamples

MileageAlphabet == {"1", "2", " ", "k", "m", "K"}

MileageExamples ==
    {<<"2", "0", "8", " ", "5", "0", "0", " ", "k", "m">>,
     <<"2", "0", "8", " ", "5", "0", "0", " ", "K", "M">>,
     <<"u", "n", "k", "n", "o", "w", "n">>,
     <<"2", "0", "8", "5", "0", "0", "k", "m">>,
     <<"1", "2", " ", "k", "m", " ", "3">>,
     <<"x", " ", "k", "m">>}

MileageTexts(n) == Strings(MileageAlphabet, n) \cup MileageExamples

TitleAlphabet == {"B", "5", " ", "\n"}

\* the title of the end-to-end example and its variants
TitleExamples ==
    {<<"B", "M", "W", " ", "5", "2", "0", "d">>,
     <<"B", "M", "W", " ", "5", " ", "G", "T">>,
     <<"B", "M", "W", "\t", "5", "2", "0", "d">>,
     <<"B", "M", "W", Nbsp, "5", "2", "0", "d">>,
     <<"\n", " ", "B", "M", "W", " ", " ", "5", "\n">>}

TitleTexts(n) == Strings(TitleAlphabet, n) \cup TitleExamples

\* a complete advertisement with the given title text
WithTitle(text) ==
    Fragment(TRUE, TRUE, Id1, TRUE, text, TRUE, PriceText1, TRUE, TitleSpans,
             TRUE, BlockSpans)

CategoryAlphabet == {"D", " "}

\* the texts of a body-type, fuel or gearbox span
CategoryTexts(n) == Strings(CategoryAlphabet, n)

\* a complete advertisement whose second title-parameter span has the given text
WithBodyType(text) ==
    Fragment(TRUE, TRUE, Id1, TRUE, TitleText, TRUE, PriceText1,
             TRUE, [TitleSpans EXCEPT ![2] = text], TRUE, BlockSpans)

\* a complete advertisement whose k-th parameter span has the given text
WithBlockSpan(k, text) ==
    Fragment(TRUE, TRUE, Id1, TRUE, TitleText, TRUE, PriceText1, TRUE, TitleSpans,
             TRUE, [BlockSpans EXCEPT ![k] = text])

\* the fragments of the model, with texts of up to n characters
ListingInputs(n) ==
    PresenceFragments
      \cup {FullFragment(Id1, t) : t \in PriceTexts(n)}
      \cup {Fragment(TRUE, TRUE, Id1, TRUE, TitleText, TRUE, PriceText1,
                     TRUE, <<t, <<"S">> >>, TRUE, BlockSpans) : t \in YearTexts(n)}
      \cup {WithTitle(t) : t \in TitleTexts(n)}
      \cup {WithBodyType(t) : t \in CategoryTexts(n)}
      \cup {WithBlockSpan(k, t) : k \in {1, 2}, t \in CategoryTexts(n)}
      \cup {WithBlockSpan(3, t) : t \in EngineTexts(n)}
      \cup {WithBlockSpan(4, t) : t \in MileageTexts(n)}

ListingInit ==
    /\ pc = "listing"
    /\ start_page = 1
    /\ pages_per_brand = 1
    /\ b = 1
    /\ p = 1
    /\ listings = 1
    /\ li = 1
    /\ fetched = [x \in Brands |-> [y \in PageNumbers |->
                     IF x = 1 /\ y = 1 THEN <<"ok">> ELSE <<>>]]
    /\ store = <<>>
    /\ first = {}
    /\ last = NoOutcome
    /\ env = FreshLocals
    /\ models = [m \in Makes |-> "absent"]
    /\ result = NoResult

\* lines 51-151: the iteration of the listing loop on the page's fragment
ProcessInput ==
    /\ pc = "listing"
    /\ li <= listings
    /\ \E f \in ListingInputs(MaxLen) : Iterate(f, "none")
    /\ li' = li + 1
    /\ UNCHANGED <<pc, start_page, pages_per_brand, b, p, listings, fetched>>
    /\ UNCHANGED ml

\* line 51: the loop ends
InputDone ==
    /\ pc = "listing"
    /\ li > listings
    /\ pc' = "page"
    /\ p' = p + 1
    /\ UNCHANGED <<start_page, pages_per_brand, b, listings, li, fetched, store,
                   first, last>>
    /\ UNCHANGED <<env, ml>>

ListingNext ==
    \/ ProcessInput
    \/ InputDone

ListingSpec == ListingInit /\ [][ListingNext]_vars

(***************************************************************************)
(* The listing loop on one page of several fragments, with an exception    *)
(* possible at every lookup and inside insert_car.                         *)
(***************************************************************************)
PageInit ==
    /\ pc = "listing"
    /\ start_page = 1
    /\ pages_per_brand = 1
    /\ b = 1
    /\ p = 1
    /\ listings \in 1..(MaxListings + 1)
    /\ li = 1
    /\ fetched = [x \in Brands |-> [y \in PageNumbers |->
                     IF x = 1 /\ y = 1 THEN <<"ok">> ELSE <<>>]]
    /\ store = <<>>
    /\ first = {}
    /\ last = NoOutcome
    /\ env = FreshLocals
    /\ models = [m \in Makes |-> "absent"]
    /\ result = NoResult

\* lines 51-154: one iteration of the listing loop
ProcessFragment ==
    /\ pc = "listing"
    /\ li <= listings
    /\ \E f \in SiteFragments, fault \in Faults : Iterate(f, fault)
    /\ li' = li + 1
    /\ UNCHANGED <<pc, start_page, pages_per_brand, b, p, listings, fetched>>
    /\ UNCHANGED ml

\* line 51: the loop ends
PageDone ==
    /\ pc = "listing"
    /\ li > listings
    /\ pc' = "page"
    /\ p' = p + 1
    /\ UNCHANGED <<start_page, pages_per_brand, b, listings, li, fetched, store,
                   first, last>>
    /\ UNCHANGED <<env, ml>>

PageNext ==
    \/ ProcessFragment
    \/ PageDone

PageSpec == PageInit /\ [][PageNext]_vars

(***************************************************************************)
(* insert_car called by any client, any number of times, on a table that   *)
(* setup_database created.                                                 *)
(***************************************************************************)
\* a car_data tuple with the given ad_id and price
Car(id, price) == [NoCar EXCEPT !.ad_id = id, !.price = price, !.make = PyStr(<<"B">>)]

DbCars ==
    {Car(id, price) : id \in {PyNone, PyStr(<<>>), PyStr(Id1), PyStr(Id2)},
                      price \in {PyNone, PyInt(1), PyInt(2)}}

DbInit ==
    /\ pc = "client"
    /\ start_page = 1
    /\ pages_per_brand = 0
    /\ b = 1
    /\ p = 1
    /\ listings = 0
    /\ li = 1
    /\ fetched = [x \in Brands |-> [y \in PageNumbers |-> <<>>]]
    /\ store = <<>>
    /\ first = {}
    /\ last = NoOutcome
    /\ env = FreshLocals
    /\ models = [m \in Makes |-> "absent"]
    /\ result = NoResult

\* src/db.py lines 5-13: insert_car(car)
InsertCar ==
    /\ pc = "client"
    /\ \E car \in DbCars :
          /\ Len(store) < MaxRows \/ Conflicts(store, car)
          /\ last' = Outcome(NoFragment, "insert_car", 0, TRUE,
                             InsertRaises(store, car), car)
          /\ store' = IF InsertRaises(store, car) THEN store
                      ELSE InsertOrIgnore(store, car)
          /\ first' = Submit(first, car)
    /\ UNCHANGED <<pc, start_page, pages_per_brand, b, p, listings, li, fetched>>
    /\ UNCHANGED <<env, ml>>

DbNext == InsertCar

DbSpec == DbInit /\ [][DbNext]_vars

(***************************************************************************)
(* The prediction collaborators called by any caller, on any content of    *)
(* the models directory.                                                   *)
(***************************************************************************)
MlInit ==
    /\ pc = "caller"
    /\ start_page = 1
    /\ pages_per_brand = 0
    /\ b = 1
    /\ p = 1
    /\ listings = 0
    /\ li = 1
    /\ fetched = [x \in Brands |-> [y \in PageNumbers |-> <<>>]]
    /\ store = <<>>
    /\ first = {}
    /\ last = NoOutcome
    /\ env = FreshLocals
    /\ models \in [Makes -> FileStates]
    /\ result = NoResult

\* a caller calls load_model(make)
LoadModel ==
    /\ pc = "caller"
    /\ \E make \in Makes : result' = load_model(models, make)
    /\ UNCHANGED models
    /\ UNCHANGED scraper

\* a caller calls predict_price(make, user_input_dict)
PredictPrice ==
    /\ pc = "caller"
    /\ \E make \in Makes : result' = predict_price(models, make)
    /\ UNCHANGED models
    /\ UNCHANGED scraper

\* a caller calls evaluate_model(make)
EvaluateModel ==
    /\ pc = "caller"
    /\ \E make \in Makes : result' = evaluate_model(models, make)
    /\ UNCHANGED models
    /\ UNCHANGED scraper

MlNext ==
    \/ LoadModel
    \/ PredictPrice
    \/ EvaluateModel

MlSpec == MlInit /\ [][MlNext]_vars

(***************************************************************************)
(* Properties.                                                             *)
(***************************************************************************)
\* the elements of a sequence
Range(sq) == {sq[i] : i \in 1..Len(sq)}

\* the rows of the table that carry identity id
RowsOf(id) == {i \in 1..Len(store) : store[i].car.ad_id = id}

\* the identity marker of a fragment is present and non-empty
HasIdentity(f) == f.id_div /\ f.has_data_id /\ f.data_id # <<>>

\* the page numbers a run is configured to visit for each brand
ConfiguredPages == start_page..(start_page + pages_per_brand - 1)

\* C1, state part: the table holds exactly one row for each identity ever
\* submitted to insert_car, with the values of the first call made with that
\* identity, and no row for any other identity.
C1_StoreHoldsFirst ==
    /\ \A c \in first : c.ad_id.tag # "None" =>
          /\ Cardinality(RowsOf(c.ad_id)) = 1
          /\ \A i \in RowsOf(c.ad_id) : store[i].car = c
    /\ \A i \in 1..Len(store) :
          store[i].car.ad_id.tag # "None" => store[i].car \in first

\* C1, step part: a call of insert_car with an identity submitted before
\* leaves the table unchanged and raises no error.
C1_LaterCallNoop ==
    (/\ last'.outcome = "insert_car"
     /\ last'.car.ad_id.tag # "None"
     /\ \E c \in first : c.ad_id = last'.car.ad_id)
    => (store' = store /\ ~last'.raised)

\* C1: after any sequence of insert_car calls the table holds exactly one row
\* per submitted identity, carrying the values of the first call with that
\* identity; every later call with the same identity changes nothing and
\* raises nothing.
C1_FirstWriteWins == []C1_StoreHoldsFirst /\ [][C1_LaterCallNoop]_vars

\* a later call with a known identity and other values was made; the row kept
\* the first values
C1_Witness ==
    /\ last.outcome = "insert_car"
    /\ last.car.ad_id.tag = "str"
    /\ last.car \notin first
    /\ \E i \in RowsOf(last.car.ad_id) : store[i].car # last.car

\* C2: once a fetched page of a brand yields no fragment, no page with a
\* higher number is ever fetched for that brand; every brand the run has
\* left behind, whatever came before it, was fetched from start_page on, and
\* the run is done only when it has left every brand behind.
C2_EmptyPageEndsBrandOnly ==
    /\ \A x \in Brands, y \in PageNumbers :
          "empty" \in Range(fetched[x][y]) =>
              \A z \in PageNumbers : z > y => fetched[x][z] = <<>>
    /\ \A x \in Brands :
          (x < b /\ pages_per_brand > 0) =>
              /\ fetched[x][start_page] # <<>>
              /\ \A z \in PageNumbers : z < start_page => fetched[x][z] = <<>>
    /\ pc = "done" => b = Len(car_brands) + 1

\* the first brand ended on an empty first page, with pages left, and the
\* second brand was fetched from start_page
C2_Witness ==
    /\ pc = "done"
    /\ pages_per_brand >= 2
    /\ fetched[1][start_page] = <<"empty">>
    /\ fetched[2][start_page] # <<>>
    /\ fetched[2][start_page + 1] # <<>>

\* C3: a fragment whose identity marker is absent or empty causes no
\* insert_car call and nothing but the marker is looked up in it; every row of
\* the table has a present, non-empty identity.
C3_NoIdentityNoRecord ==
    /\ (last.outcome # "none" /\ ~HasIdentity(last.frag)) =>
          /\ ~last.called
          /\ last.probed \subseteq {"id"}
          /\ last.car = NoCar
    /\ \A i \in 1..Len(store) :
          /\ store[i].car.ad_id.tag = "str"
          /\ store[i].car.ad_id.s # <<>>

\* a fragment with an empty data-id was skipped while the table holds a row
C3_Witness ==
    /\ last.outcome = "skip_no_id"
    /\ last.frag.id_div /\ last.frag.has_data_id
    /\ store # <<>>

\* C4, state part: no page is fetched twice.
C4_NoRetry == \A x \in Brands, y \in PageNumbers : Len(fetched[x][y]) <= 1

\* C4, step part: the step in which driver.get fails parses nothing, calls
\* insert_car for nothing and moves to the next page index of the same brand.
C4_FailSkipsPage ==
    (/\ pc = "page"
     /\ p < start_page + pages_per_brand
     /\ fetched'[b][p] # fetched[b][p]
     /\ fetched'[b][p][Len(fetched'[b][p])] = "fail")
    => /\ pc' = "page"
       /\ b' = b
       /\ p' = p + 1
       /\ store' = store
       /\ first' = first
       /\ last' = last
       /\ <<listings, li>>' = <<listings, li>>

\* C4: a page whose fetch fails is not fetched again, none of its listings
\* is parsed or inserted, and the traversal goes on with the next page index
\* of the same brand.
C4_FetchFailureSkipsPage == []C4_NoRetry /\ [][C4_FailSkipsPage]_vars

\* a page failed and the next page of the same brand was fetched
C4_Witness ==
    \E x \in Brands, y \in PageNumbers :
        /\ y + 1 \in PageNumbers
        /\ fetched[x][y] = <<"fail">>
        /\ fetched[x][y + 1] = <<"ok">>

\* the positions of a run that has not been ended by an exception
Positions == {"brand", "page", "listing", "done"}

\* C5, step part: an iteration that ends in an exception leaves the loops
\* where they are and moves to the next fragment of the page.
C5_ErrorMovesOn ==
    (pc = "listing" /\ li <= listings /\ last'.outcome = "error")
    => /\ pc' = "listing"
       /\ li' = li + 1
       /\ <<b, p, listings, fetched, start_page, pages_per_brand>>'
              = <<b, p, listings, fetched, start_page, pages_per_brand>>

\* C5: an exception raised while a fragment is processed (in the extraction
\* or inside insert_car) is caught at the listing: the run is never ended by
\* it, and the loops go on with the fragment that follows.
C5_ExceptionCaughtPerListing == [](pc \in Positions) /\ [][C5_ErrorMovesOn]_vars

\* insert_car raised for the first fragment of a page and the second one is next
C5_Witness ==
    /\ pc = "listing"
    /\ last.outcome = "error"
    /\ last.raised
    /\ li = 2
    /\ listings >= 2

AllAttempted ==
    \A x \in Brands, y \in ConfiguredPages :
        \/ fetched[x][y] # <<>>
        \/ \E z \in ConfiguredPages : z < y /\ "empty" \in Range(fetched[x][z])

C8_NumericFieldsTyped ==
    /\ last.outcome # "error"
    /\ last.called =>
          /\ last.car.price.tag \in {"int", "None"}
          /\ last.car.year.tag \in {"int", "None"}
          /\ last.car.engine_power.tag \in {"int", "None"}
          /\ last.car.mileage.tag \in {"int", "None"}
          /\ last.car.engine_volume.tag \in {"float", "None"}

\* a record was handed over whose pricing text is no number
C8_Witness ==
    /\ last.called
    /\ last.frag.price_elem
    /\ ~IntOk(Remove(last.frag.price_text, <<" ">>))
    /\ last.car.price = PyNone

\* the price as the specification describes it: the text up to its first
\* newline, without the euro sign and the spaces, as an integer
PriceAsSpecified(text) ==
    LET cleaned == Remove(Remove(Strip(BeforeFirst(Strip(text), "\n")), <<Euro>>), <<" ">>)
    IN  IF IntOk(cleaned) THEN PyInt(IntOf(cleaned)) ELSE PyNone

\* C9: the price of a record is the pricing text cut at its first newline,
\* without the euro sign and the separators, parsed as an integer, or unknown
\* when that is no number.
C9_PriceWithoutEuroSign ==
    (last.called /\ last.frag.price_elem) =>
        last.car.price = PriceAsSpecified(last.frag.price_text)

\* s.endswith(sub)
EndsWith(s, sub) ==
    /\ Len(sub) <= Len(s)
    /\ SubSeq(s, Len(s) - Len(sub) + 1, Len(s)) = sub

\* the mileage as the specification describes it
MileageAsSpecified(text) ==
    LET l == Lower(text)
        rest == Remove(SubSeq(l, 1, Len(l) - 2), <<" ">>)
    IN  IF EndsWith(l, <<"k", "m">>) /\ IntOk(rest) THEN PyInt(IntOf(rest))
        ELSE PyNone

\* C10: the mileage of a record is unknown when the span text does not end
\* with "km" (in any case), and otherwise the integer left after removing
\* the suffix and the spaces, or unknown when that is no integer.
C10_MileageBySuffix ==
    (last.called /\ last.frag.params_block /\ Len(last.frag.block_spans) > 3) =>
        last.car.mileage = MileageAsSpecified(GetTextStrip(last.frag.block_spans[4]))

\* the part of an engine-info text before its first comma
BeforeComma(text) == SubSeq(text, 1, Find(text, <<",">>) - 1)

\* the part of an engine-info text after its first comma, up to the next one
AfterComma(text) ==
    LET rest == SubSeq(text, Find(text, <<",">>) + 1, Len(text))
        j == Find(rest, <<",">>)
    IN  IF j = 0 THEN rest ELSE SubSeq(rest, 1, j - 1)

\* the engine volume as the specification describes it
VolumeAsSpecified(text) ==
    IF Find(text, <<",">>) = 0 THEN PyNone
    ELSE LET v == Strip(Remove(BeforeComma(text), <<"l", ".">>))
         IN  IF FloatOk(v) THEN FloatOf(v) ELSE PyNone

\* the engine power as the specification describes it
PowerAsSpecified(text) ==
    IF Find(text, <<",">>) = 0 THEN PyNone
    ELSE LET w == Strip(Remove(AfterComma(text), <<"k", "W">>))
         IN  IF IntOk(w) THEN PyInt(IntOf(w)) ELSE PyNone

\* C11: for every engine-info span text, engine_volume and engine_power are
\* both unknown when the text holds no comma; otherwise engine_volume is the
\* decimal parsed from the part before the first comma without its "l."
\* marker and engine_power the integer parsed from the part after that comma
\* (up to a further comma, if any) without its "kW" unit, each unknown when
\* its own part does not parse, whatever the other part is.
C11_EngineByComma ==
    (last.called /\ last.frag.params_block /\ Len(last.frag.block_spans) > 2) =>
        LET text == GetTextStrip(last.frag.block_spans[3])
        IN  /\ last.car.engine_volume = VolumeAsSpecified(text)
            /\ last.car.engine_power = PowerAsSpecified(text)

\* a record whose engine-info text has a comma, a volume part that is no
\* number and a power part that is one
C11_Witness ==
    /\ last.called
    /\ last.frag.params_block
    /\ Len(last.frag.block_spans) > 2
    /\ Contains(last.frag.block_spans[3], <<",">>)
    /\ last.car.engine_volume = PyNone
    /\ last.car.engine_power = PyInt(140)

\* the least index of a whitespace character of s, 0 when there is none
FirstWhitespace(s) ==
    LET hits == {i \in 1..Len(s) : s[i] \in Whitespace}
    IN  IF hits = {} THEN 0 ELSE CHOOSE i \in hits : \A j \in hits : i <= j

\* C12: for every title text (trimmed), make is the part before its first
\* whitespace character and model the whole remainder after that character;
\* a title without whitespace is the make, and the model is unknown.
C12_SplitOnFirstWhitespace ==
    (last.called /\ last.frag.title_elem) =>
        LET title == Strip(last.frag.title_text)
            i == FirstWhitespace(title)
        IN  IF i = 0
            THEN last.car.make = PyStr(title) /\ last.car.model = PyNone
            ELSE /\ last.car.make = PyStr(SubSeq(title, 1, i - 1))
                 /\ last.car.model = PyStr(SubSeq(title, i + 1, Len(title)))

\* C13: a call of load_model, predict_price or evaluate_model for a make
\* whose model file does not exist ends by raising, and so does a call of
\* evaluate_model whose stored test data is empty; none of them returns
\* normally after logging.
C13_FailuresRaise ==
    result.fn # "none" =>
        /\ models[result.make] = "absent" => result.outcome = "raise"
        /\ (result.fn = "evaluate_model" /\ models[result.make] = "empty_test")
              => result.outcome = "raise"

\* a categorical value the Sink may be given: unknown, or a non-empty
\* trimmed text
Categorical(v) ==
    \/ v = PyNone
    \/ v.tag = "str" /\ v.s # <<>> /\ Strip(v.s) = v.s

\* C14: in every record handed to insert_car, each of make, model,
\* body_type, fuel and gearbox is unknown or a non-empty trimmed text; an
\* empty title or an empty span never reaches the Sink as an empty string.
C14_CategoricalNeverEmpty ==
    last.called =>
        /\ Categorical(last.car.make)
        /\ Categorical(last.car.model)
        /\ Categorical(last.car.body_type)
        /\ Categorical(last.car.fuel)
        /\ Categorical(last.car.gearbox)

\* the first four characters of s are four decimal digits
FourDigits(s) == Len(s) >= 4 /\ \A i \in 1..4 : s[i] \in Digits

\* C15: the year of every record handed to insert_car is unknown or an
\* integer of 1000..9999, and it is unknown whenever the first four
\* characters of the first title-parameter span are not four decimal digits.
C15_YearFourDigits ==
    last.called =>
        /\ \/ last.car.year = PyNone
           \/ last.car.year.tag = "int" /\ last.car.year.n \in 1000..9999
        /\ (/\ last.frag.title_params
            /\ Len(last.frag.title_spans) > 0
            /\ ~FourDigits(GetTextStrip(last.frag.title_spans[1])))
           => last.car.year = PyNone

\* C16, state part: every page fetched so far was fetched once, lies among
\* the pages_per_brand page numbers from start_page on, belongs to a brand
\* the run has left or to the current brand at a page number not above the
\* current one, and every lower page number of its brand from start_page on
\* was fetched before it.
C16_VisitedInOrder ==
    \A x \in Brands, y \in PageNumbers :
        fetched[x][y] # <<>> =>
            /\ Len(fetched[x][y]) = 1
            /\ y \in ConfiguredPages
            /\ x < b \/ (x = b /\ y <= p)
            /\ \A z \in start_page..(y - 1) : fetched[x][z] # <<>>

\* C16, step part: a fetch happens at the head of the page loop, for the
\* current brand and page, which was not fetched before, while no page of a
\* later brand and no higher page of this brand has been fetched; the brand
\* index never decreases; the listing loop is left only after its last
\* fragment; fragments are processed one by one in their order, and the
\* table changes only while a fragment is processed.
C16_StepInOrder ==
    /\ fetched' # fetched =>
          /\ pc = "page"
          /\ fetched[b][p] = <<>>
          /\ fetched'[b][p] # <<>>
          /\ \A x \in Brands, y \in PageNumbers :
                <<x, y>> # <<b, p>> => fetched'[x][y] = fetched[x][y]
          /\ \A x \in Brands, y \in PageNumbers :
                (x > b \/ (x = b /\ y > p)) => fetched[x][y] = <<>>
    /\ b' \in {b, b + 1}
    /\ (pc = "listing" /\ pc' # "listing") => li > listings
    /\ (pc = "listing" /\ li' # li) => (li <= listings /\ li' = li + 1)
    /\ (store' # store \/ first' # first) => (pc = "listing" /\ li' = li + 1)

\* C16: brands are visited in the order given; within a brand the page
\* numbers start_page, start_page + 1, ... are fetched in increasing order,
\* at most pages_per_brand of them and each at most once; every fragment of
\* a page is processed, in order, before the next page is fetched, and every
\* page of a brand before the first page of the next brand.
C16_PagesAndListingsInOrder == []C16_VisitedInOrder /\ [][C16_StepInOrder]_vars

\* a finished run that fetched two pages of the first brand and went on to
\* the second, with records stored
C16_Witness ==
    /\ pc = "done"
    /\ pages_per_brand = 2
    /\ fetched[1][start_page] = <<"ok">>
    /\ fetched[1][start_page + 1] = <<"ok">>
    /\ fetched[2][start_page] = <<"ok">>
    /\ store # <<>>

\* C17: the record handed to insert_car for a fragment is the record of that
\* fragment alone, whatever was processed, skipped or failed before it: each
\* field is what the fragment's own sub-elements give, and a field whose
\* sub-element the fragment lacks is unknown.
C17_RecordFromFragmentAlone ==
    last.called =>
        /\ last.car = CarData(last.frag)
        /\ ~last.frag.price_elem => last.car.price = PyNone
        /\ ~last.frag.title_params =>
              (last.car.year = PyNone /\ last.car.body_type = PyNone)
        /\ ~last.frag.params_block =>
              /\ last.car.fuel = PyNone
              /\ last.car.gearbox = PyNone
              /\ last.car.engine_volume = PyNone
              /\ last.car.engine_power = PyNone
              /\ last.car.mileage = PyNone

\* a record was handed over for a fragment without pricing element, title
\* parameters and parameters block, after a complete fragment had been stored
C17_Witness ==
    /\ last.called
    /\ last.frag = BareFragment(Id1)
    /\ store # <<>>
    /\ store[1].car.price = PyInt(15)
    /\ last.car.price = PyNone

====
